---- MODULE Spec2Model ----
(***************************************************************************)
(* NanoFilt: filtering and trimming of FASTQ reads arriving on stdin.      *)
(* The model follows src/nanofilt/NanoFilt.py: get_args() validates the    *)
(* command line, main() normalises the tail crop and dispatches to         *)
(* filter_stream() or filter_using_summary(), each of which handles one    *)
(* record per loop iteration and prints accepted records at once.          *)
(***************************************************************************)
EXTENDS Integers, Sequences, FiniteSets, TLC

(* ------------------------------ bounds --------------------------------- *)
\* longest read on stdin
MaxLen == 3
\* largest number of records on stdin
MaxRecs == 2
\* largest --headcrop / --tailcrop given on the command line
MaxCrop == 1
\* largest --length given on the command line
MaxMinLen == 1

(* --------------------------- value encodings --------------------------- *)
\* Python's None; an optional integer n is <<n>>
None == <<>>
Some(n) == <<n>>
\* `x or 0` for an optional integer (None and 0 are both falsy)
OrZero(x) == IF x = None THEN 0 ELSE x[1]
\* truth value of an optional integer in `if x:`
Truthy(x) == x # None /\ x[1] # 0

\* floats of the GC options and of the GC fraction are exact fractions <<num, den>>, den > 0
Frac(n, d) == <<n, d>>
FracLeq(a, b) == a[1] * b[2] <= b[1] * a[2]
FracLt(a, b) == a[1] * b[2] < b[1] * a[2]
FracEq(a, b) == a[1] * b[2] = b[1] * a[2]

Max(a, b) == IF a >= b THEN a ELSE b
Min(a, b) == IF a <= b THEN a ELSE b

(* ------------------------------ inputs --------------------------------- *)
\* read identifiers: the k-th record of the stream is read k
Ids == 1 .. (MaxRecs + 1)

\* bases of a read with gc leading G/C bases (mixed case) followed by A/T bases
SeqOf(len, gc) ==
    [i \in 1 .. len |->
        IF i <= gc THEN (IF i % 2 = 1 THEN "G" ELSE "c")
                   ELSE (IF i % 2 = 1 THEN "A" ELSE "t")]

\* Phred scores of a read: base + position, so that every position is recognisable
QualsOf(len, base) == [i \in 1 .. len |-> base + i]

\* the reads tried for each length: a low-quality read of G/C bases only
\* (scores from 10 up) and a high-quality read with G/C in its first half
\* (scores from 21 up)
ReadKinds == {[gc |-> "all", base |-> 9], [gc |-> "half", base |-> 20]}

\* number of G/C bases of a read of the given kind and length
GCCount(kind, len) == IF kind.gc = "all" THEN len ELSE len \div 2

\* the records SeqIO.parse can yield as record number id
Records(id) ==
    {[id |-> id, seq |-> SeqOf(len, GCCount(kind, len)), quals |-> QualsOf(len, kind.base)] :
        len \in 0 .. MaxLen, kind \in ReadKinds}

\* quality column of the summary file for a read
SummaryQual(id) == IF id % 2 = 1 THEN 10 ELSE 12

\* summary files: every read of the run, or all but one of the later reads
SummaryFiles ==
    {[id \in Ids \ {missing} |-> SummaryQual(id)] : missing \in {0} \cup (2 .. MaxRecs)}

\* values given to --minGC and --maxGC, as pairs <<minGC, maxGC>>: the
\* defaults, a range of one value, and wrong ones (minGC > maxGC, a bound
\* below 0.0, a bound above 1.0, both bounds above 1.0)
GCArgs ==
    {<<Frac(0, 1), Frac(1, 1)>>, <<Frac(1, 2), Frac(1, 2)>>,
     <<Frac(1, 2), Frac(0, 1)>>, <<Frac(-1, 2), Frac(1, 1)>>,
     <<Frac(0, 1), Frac(3, 2)>>, <<Frac(3, 2), Frac(2, 1)>>}

\* values given to --quality
QualityArgs == {0, 10}

\* values given to --headcrop and --tailcrop
CropArgs == {None} \cup {Some(n) : n \in 0 .. MaxCrop}

(* ------------------------------- state --------------------------------- *)
VARIABLES
    pc,       \* position of the program
    args,     \* the argparse namespace
    data,     \* SummaryIndex of filter_using_summary: read id -> quality
    stdin,    \* records decoded from stdin so far, in order
    stdout,   \* FASTQ entries printed so far, in order
    err       \* how the program terminated: [kind, id], kind "none" while it runs

vars == <<pc, args, data, stdin, stdout, err>>

(* --------------------------- pure functions ---------------------------- *)
\* nanomath's error-probability table, 10^(-q/10) scaled by 10^6
errs_tab ==
    <<1000000, 794328, 630957, 501187, 398107, 316228, 251189, 199526, 158489,
      125893, 100000, 79433, 63096, 50119, 39811, 31623, 25119, 19953, 15849,
      12589, 10000, 7943, 6310, 5012, 3981, 3162, 2512, 1995, 1585, 1259, 1000,
      794, 631, 501, 398, 316, 251, 200, 158, 126, 100>>

RECURSIVE SumErr(_)
SumErr(quals) ==
    IF quals = <<>> THEN 0 ELSE errs_tab[Head(quals) + 1] + SumErr(Tail(quals))

\* Average quality of a non-empty read: mean of the error probabilities, back
\* on the Phred scale.  The result is the least integer not below the average,
\* which compares with an integer threshold exactly as the average does.
ave_qual(quals) ==
    LET total == SumErr(quals)
    IN CHOOSE c \in 0 .. (Len(errs_tab) - 1) :
        /\ errs_tab[c + 1] * Len(quals) <= total
        /\ c > 0 => errs_tab[c] * Len(quals) > total

\* str.upper() on one base
Upper(ch) ==
    CASE ch = "a" -> "A" [] ch = "c" -> "C" [] ch = "g" -> "G" [] ch = "t" -> "T"
      [] OTHER -> ch

\* rec.seq.upper().count(ch)
Count(seq, ch) == Cardinality({i \in 1 .. Len(seq) : Upper(seq[i]) = ch})

\* (count("C") + count("G")) / len(rec), for a non-empty read
GCFraction(rec) == Frac(Count(rec.seq, "C") + Count(rec.seq, "G"), Len(rec.seq))

\* a slice bound of Python, clamped into 0 .. n
Bound(x, n, dflt) ==
    IF x = None THEN dflt
    ELSE IF x[1] < 0 THEN Max(x[1] + n, 0) ELSE Min(x[1], n)

\* s[start:stop]
Slice(s, start, stop) ==
    LET lo == Bound(start, Len(s), 0)
        hi == Bound(stop, Len(s), Len(s))
    IN IF lo >= hi THEN <<>> ELSE SubSeq(s, lo + 1, hi)

\* rec[start:stop]: the same slice of the bases and of the scores, same id
SliceRec(rec, start, stop) ==
    [id |-> rec.id, seq |-> Slice(rec.seq, start, stop),
     quals |-> Slice(rec.quals, start, stop)]

\* valid_GC without the test against 1.0
valid_GC_NoUpper(x) == ~FracLt(x, Frac(0, 1))

\* valid_GC: TRUE iff the value is accepted
valid_GC(x) == ~(FracLt(x, Frac(0, 1)) \/ FracLt(Frac(1, 1), x))

\* the dummy GC value of a run without GC filter
DummyGC == Frac(1, 2)

\* minlen of filter_stream
minlen(a) == a.length + OrZero(a.headcrop) - OrZero(a.tailcrop)

\* filter_stream's test with >= in place of > on the quality
StreamAccepts_GeQuality(a, rec) ==
    LET gc == IF a.GC_filter THEN GCFraction(rec) ELSE DummyGC
    IN /\ ave_qual(rec.quals) >= a.quality
       /\ Len(rec.seq) > minlen(a)
       /\ FracLeq(a.minGC, gc)
       /\ FracLeq(gc, a.maxGC)

\* filter_stream's test with the quality comparison the wrong way round
StreamAccepts_LtQuality(a, rec) ==
    LET gc == IF a.GC_filter THEN GCFraction(rec) ELSE DummyGC
    IN /\ ave_qual(rec.quals) < a.quality
       /\ Len(rec.seq) > minlen(a)
       /\ FracLeq(a.minGC, gc)
       /\ FracLeq(gc, a.maxGC)

\* the acceptance test of filter_stream for a non-empty read
StreamAccepts(a, rec) ==
    LET gc == IF a.GC_filter THEN GCFraction(rec) ELSE DummyGC
    IN /\ ave_qual(rec.quals) > a.quality
       /\ Len(rec.seq) > minlen(a)
       /\ FracLeq(a.minGC, gc)
       /\ FracLeq(gc, a.maxGC)

\* The exception filter_stream raises on the read, "none" if it raises none:
\* the GC fraction of an empty read divides by zero (only computed with the
\* GC filter on); the average of no scores is no number and fails the comparison.
StreamRaises(a, rec) ==
    IF a.GC_filter /\ Len(rec.seq) = 0 THEN "ZeroDivisionError"
    ELSE IF Len(rec.quals) = 0 THEN "EmptyQuals"
    ELSE "none"

\* the KeyError of data[record.id]
SummaryRaises(d, rec) == rec.id \notin DOMAIN d

\* filter_using_summary's test with the crops folded into the length threshold
SummaryAccepts_CropAware(a, d, rec) == d[rec.id] > a.quality /\ Len(rec.seq) > minlen(a)

\* the acceptance test of filter_using_summary for a read found in the summary
SummaryAccepts(a, d, rec) == d[rec.id] > a.quality /\ Len(rec.seq) > a.length

\* a print that puts the entry in front of what was printed before
print_fastq_front(out, entry) == <<entry>> \o out

\* print(..., end=""): the entry goes to the end of stdout
print_fastq(out, entry) == Append(out, entry)

\* the termination record
Terminated(kind, id) == [kind |-> kind, id |-> id]
NotTerminated == Terminated("none", 0)

(* ------------------------------ actions -------------------------------- *)
Init ==
    /\ pc = "get_args"
    /\ \E gc \in GCArgs :
        args \in [length : 0 .. MaxMinLen, quality : QualityArgs,
                  minGC : {gc[1]}, maxGC : {gc[2]},
                  headcrop : CropArgs, tailcrop : CropArgs,
                  summary : {None} \cup {Some(f) : f \in SummaryFiles},
                  GC_filter : {FALSE}]
    /\ data = <<>>
    /\ stdin = <<>>
    /\ stdout = <<>>
    /\ err = NotTerminated

\* get_args: argparse applies valid_GC to both GC options, then min <= max is checked
get_args ==
    /\ pc = "get_args"
    /\ IF ~valid_GC(args.minGC) \/ ~valid_GC(args.maxGC)
       THEN /\ pc' = "exit"
            /\ err' = Terminated("ArgumentTypeError", 0)
            /\ UNCHANGED args
       ELSE IF FracLt(args.maxGC, args.minGC)
       THEN /\ pc' = "exit"
            /\ err' = Terminated("minGC should be smaller than maxGC", 0)
            /\ UNCHANGED args
       ELSE /\ pc' = "main"
            /\ args' = [args EXCEPT !.GC_filter =
                          ~(FracEq(args.minGC, Frac(0, 1)) /\ FracEq(args.maxGC, Frac(1, 1)))]
            /\ UNCHANGED err
    /\ UNCHANGED <<data, stdin, stdout>>

\* main: negate the tail crop, then enter one of the two filters
main ==
    /\ pc = "main"
    /\ args' = [args EXCEPT !.tailcrop =
                  IF Truthy(args.tailcrop) THEN Some(-args.tailcrop[1]) ELSE args.tailcrop]
    /\ IF args.summary # None
       THEN /\ data' = args.summary[1]
            /\ pc' = "filter_using_summary"
       ELSE /\ data' = data
            /\ pc' = "filter_stream"
    /\ UNCHANGED <<stdin, stdout, err>>

\* one iteration of the loop of filter_stream
filter_stream ==
    /\ pc = "filter_stream"
    /\ Len(stdin) < MaxRecs
    /\ \E rec \in Records(Len(stdin) + 1) :
        /\ stdin' = Append(stdin, rec)
        /\ IF StreamRaises(args, rec) # "none"
           THEN /\ pc' = "exception"
                /\ err' = Terminated(StreamRaises(args, rec), rec.id)
                /\ UNCHANGED stdout
           ELSE /\ stdout' = IF StreamAccepts(args, rec)
                             THEN print_fastq(stdout, SliceRec(rec, args.headcrop, args.tailcrop))
                             ELSE stdout
                /\ UNCHANGED <<pc, err>>
    /\ UNCHANGED <<args, data>>

\* filter_using_summary that skips a read missing from the summary and goes on
filter_using_summary_skips ==
    /\ pc = "filter_using_summary"
    /\ Len(stdin) < MaxRecs
    /\ \E rec \in Records(Len(stdin) + 1) :
        /\ stdin' = Append(stdin, rec)
        /\ stdout' = IF ~SummaryRaises(data, rec) /\ SummaryAccepts(args, data, rec)
                     THEN print_fastq(stdout, SliceRec(rec, args.headcrop, args.tailcrop))
                     ELSE stdout
    /\ UNCHANGED <<pc, err, args, data>>

\* one iteration of the loop of filter_using_summary
filter_using_summary ==
    /\ pc = "filter_using_summary"
    /\ Len(stdin) < MaxRecs
    /\ \E rec \in Records(Len(stdin) + 1) :
        /\ stdin' = Append(stdin, rec)
        /\ IF SummaryRaises(data, rec)
           THEN /\ pc' = "exit"
                /\ err' = Terminated("mismatch between sequencing_summary and fastq file", rec.id)
                /\ UNCHANGED stdout
           ELSE /\ stdout' = IF SummaryAccepts(args, data, rec)
                             THEN print_fastq(stdout, SliceRec(rec, args.headcrop, args.tailcrop))
                             ELSE stdout
                /\ UNCHANGED <<pc, err>>
    /\ UNCHANGED <<args, data>>

\* stdin is exhausted: the loop ends and main finishes
finished ==
    /\ pc \in {"filter_stream", "filter_using_summary"}
    /\ pc' = "finished"
    /\ UNCHANGED <<args, data, stdin, stdout, err>>

Next == get_args \/ main \/ filter_stream \/ filter_using_summary \/ finished

Spec == Init /\ [][Next]_vars

TypeOK ==
    /\ pc \in {"get_args", "main", "filter_stream", "filter_using_summary",
               "finished", "exit", "exception"}
    /\ Len(stdin) <= MaxRecs
    /\ Len(stdout) <= Len(stdin)
(* ------------------------- checked properties -------------------------- *)
\* the run took the Stream Filter / the Summary-Joined Filter and has entered it
OnStreamPath == args.summary = None /\ pc \in {"filter_stream", "finished", "exception"}
OnSummaryPath ==
    /\ args.summary # None
    /\ pc \in {"filter_using_summary", "finished"} \/ (pc = "exit" /\ stdin # <<>>)

\* the k-th input record has an entry on stdout
Emitted(k) == \E j \in 1 .. Len(stdout) : stdout[j].id = stdin[k].id

\* crop lengths as configured: absent counts as 0, the tail crop by its magnitude
HeadCropLen == IF args.headcrop = None THEN 0 ELSE args.headcrop[1]
TailCropLen ==
    IF args.tailcrop = None THEN 0
    ELSE IF args.tailcrop[1] < 0 THEN -args.tailcrop[1] ELSE args.tailcrop[1]

\* GC filtering is inactive
GCInactive == args.minGC = Frac(0, 1) /\ args.maxGC = Frac(1, 1)

\* number of G and C bases of a read, either case
NumGC(seq) == Cardinality({i \in 1 .. Len(seq) : seq[i] \in {"G", "C", "g", "c"}})

\* the read's GC fraction lies in [minGC, maxGC]
GCInRange(rec) ==
    /\ args.minGC[1] * Len(rec.seq) <= NumGC(rec.seq) * args.minGC[2]
    /\ NumGC(rec.seq) * args.maxGC[2] <= args.maxGC[1] * Len(rec.seq)

\* the stated acceptance condition of the Stream Filter
StreamShouldEmit(rec) ==
    /\ Len(rec.seq) > args.length + HeadCropLen + TailCropLen
    /\ ave_qual(rec.quals) > args.quality
    /\ GCInactive \/ GCInRange(rec)

\* the stated acceptance condition of the Summary-Joined Filter
SummaryShouldEmit(rec) == data[rec.id] > args.quality /\ Len(rec.seq) > args.length

\* C1: on the Stream Filter path a record is emitted iff its average quality
\* is strictly above min_quality, its length strictly above
\* min_length + head_crop + |tail_crop|, and its GC fraction within
\* [minGC, maxGC] (always so when GC filtering is inactive); a rejected
\* record leaves nothing on the output.
C1_StreamAcceptance ==
    OnStreamPath =>
        /\ \A k \in 1 .. Len(stdin) : Emitted(k) <=> StreamShouldEmit(stdin[k])
        /\ Len(stdout) = Cardinality({k \in 1 .. Len(stdin) : Emitted(k)})

\* a finished stream run with GC filtering and a crop that emitted one of two records
C1_Witness ==
    /\ OnStreamPath /\ pc = "finished"
    /\ ~GCInactive /\ HeadCropLen + TailCropLen > 0
    /\ Len(stdin) = 2 /\ Len(stdout) = 1

\* C2: on the Summary-Joined path a record found in the SummaryIndex is
\* emitted iff its looked-up quality is strictly above min_quality and its
\* length strictly above min_length; crops and GC bounds play no part.
C2_SummaryAcceptance ==
    OnSummaryPath =>
        \A k \in 1 .. Len(stdin) :
            stdin[k].id \in DOMAIN data => (Emitted(k) <=> SummaryShouldEmit(stdin[k]))

\* a summary run that emitted a record outside the GC range and not longer
\* than min_length plus the crops
C2_Witness ==
    /\ OnSummaryPath
    /\ \E k \in 1 .. Len(stdin) :
        /\ Emitted(k)
        /\ ~GCInactive /\ ~GCInRange(stdin[k])
        /\ Len(stdin[k].seq) <= args.length + HeadCropLen + TailCropLen

\* C3: an emitted record of length L with head crop h and tail crop t,
\* h + t <= L, carries exactly the bases and the scores of the original
\* positions h .. L-t-1, on either path.
C3_TrimInvariant ==
    (OnStreamPath \/ OnSummaryPath) =>
        \A j \in 1 .. Len(stdout) :
            LET rec == stdin[stdout[j].id]
                L == Len(rec.seq)
            IN HeadCropLen + TailCropLen <= L =>
                /\ stdout[j].seq = SubSeq(rec.seq, HeadCropLen + 1, L - TailCropLen)
                /\ stdout[j].quals = SubSeq(rec.quals, HeadCropLen + 1, L - TailCropLen)

\* the entries the Summary-Joined Filter owes for the records given, all of
\* them present in the SummaryIndex
SummaryOwes(recs) ==
    LET Keep(rec) == SummaryShouldEmit(rec)
        kept == SelectSeq(recs, Keep)
    IN [j \in 1 .. Len(kept) |-> SliceRec(kept[j], args.headcrop, args.tailcrop)]

\* C4: a record whose identifier is missing from the SummaryIndex is the
\* last one read: the run has exited with the mismatch error naming that
\* identifier, and stdout holds exactly the trimmed accepted records that
\* came before it.
C4_MismatchIsFatal ==
    OnSummaryPath =>
        \A k \in 1 .. Len(stdin) :
            stdin[k].id \notin DOMAIN data =>
                /\ k = Len(stdin)
                /\ pc = "exit"
                /\ err = Terminated("mismatch between sequencing_summary and fastq file",
                                    stdin[k].id)
                /\ stdout = SummaryOwes(SubSeq(stdin, 1, k - 1))

\* the second record is missing from the summary although long enough, the first was emitted
C4_Witness ==
    /\ OnSummaryPath /\ pc = "exit"
    /\ Len(stdin) = 2 /\ Len(stdout) = 1
    /\ stdin[2].id \notin DOMAIN data
    /\ Len(stdin[2].seq) > args.length

\* C5: the emitted identifiers are a subsequence of the input identifiers:
\* every entry stems from an input record and the entries keep the input order.
C5_OrderPreserved ==
    /\ \A j \in 1 .. Len(stdout) :
        \E k \in 1 .. Len(stdin) : stdin[k].id = stdout[j].id
    /\ \A i, j \in 1 .. Len(stdout) :
        i < j => \E k, l \in 1 .. Len(stdin) :
                    k < l /\ stdin[k].id = stdout[i].id /\ stdin[l].id = stdout[j].id

\* two records were emitted
C5_Witness == Len(stdout) >= 2

\* C6: every record emitted by the Stream Filter keeps at least min_length
\* bases after cropping.
C6_PostCropMinLength ==
    OnStreamPath => \A j \in 1 .. Len(stdout) : Len(stdout[j].seq) >= args.length

\* amounts by which min_quality is raised
QualityRaises == {1, 11}

\* amounts by which min_length is raised
LengthRaises == {1, 2}

\* the configurations that differ from a only by a higher min_quality or only
\* by a higher min_length
Raised(a) ==
    {[a EXCEPT !.quality = a.quality + d] : d \in QualityRaises}
        \cup {[a EXCEPT !.length = a.length + d] : d \in LengthRaises}

\* the k-th input record is accepted by a run under configuration a
AcceptedUnder(a, k) ==
    IF a.summary = None
    THEN StreamRaises(a, stdin[k]) = "none" /\ StreamAccepts(a, stdin[k])
    ELSE ~SummaryRaises(data, stdin[k]) /\ SummaryAccepts(a, data, stdin[k])

\* C7: for the input read so far, every record accepted under a
\* configuration with a higher min_quality, or with a higher min_length, is
\* among the records this run has emitted.
C7_FilterMonotone ==
    (OnStreamPath \/ OnSummaryPath) =>
        \A k \in 1 .. Len(stdin) :
            ~Emitted(k) => \A a \in Raised(args) : ~AcceptedUnder(a, k)

\* raising a threshold drops one of the emitted records and keeps another
C7_Witness ==
    /\ (OnStreamPath \/ OnSummaryPath)
    /\ \E a \in Raised(args) : \E k, l \in 1 .. Len(stdin) :
        /\ Emitted(k) /\ ~AcceptedUnder(a, k)
        /\ Emitted(l) /\ AcceptedUnder(a, l)

\* the GC options are wrong: a bound outside [0.0, 1.0] or minGC > maxGC
BadGCOptions ==
    \/ args.minGC[1] < 0 \/ args.minGC[1] > args.minGC[2]
    \/ args.maxGC[1] < 0 \/ args.maxGC[1] > args.maxGC[2]
    \/ args.minGC[1] * args.maxGC[2] > args.maxGC[1] * args.minGC[2]

ConfigErrors == {"ArgumentTypeError", "minGC should be smaller than maxGC"}

\* C8: with wrong GC options the run ends in get_args with an error, nothing
\* read and nothing emitted; with right ones get_args raises no error.
C8_ConfigRejected ==
    /\ BadGCOptions =>
        /\ pc \in {"get_args", "exit"}
        /\ pc = "exit" => err.kind \in ConfigErrors
        /\ stdin = <<>> /\ stdout = <<>>
    /\ ~BadGCOptions => err.kind \notin ConfigErrors

\* the run was refused because minGC > maxGC, both in range
C8_Witness ==
    /\ pc = "exit" /\ err.kind = "minGC should be smaller than maxGC"
    /\ stdin = <<>> /\ stdout = <<>>

\* C9: with GC filtering active the Stream Filter never divides by the
\* length of an empty record: such a record is rejected and the run goes on.
C9_EmptyGuarded ==
    (OnStreamPath /\ args.GC_filter) =>
        \A k \in 1 .. Len(stdin) :
            Len(stdin[k].seq) = 0 => pc # "exception" /\ err.kind # "ZeroDivisionError"

\* the entries a filter owes for the records read so far
Owed ==
    LET Keep(rec) ==
            IF args.summary = None THEN StreamShouldEmit(rec)
            ELSE rec.id \in DOMAIN data /\ SummaryShouldEmit(rec)
        kept == SelectSeq(stdin, Keep)
    IN [j \in 1 .. Len(kept) |-> SliceRec(kept[j], args.headcrop, args.tailcrop)]

\* C10: at every point of a run stdout is exactly the trimmed accepted
\* records of the input read so far, and a run that has begun to read ends
\* only at the end of the input or at the identifier mismatch.
C10_Incremental ==
    (OnStreamPath \/ OnSummaryPath) =>
        /\ stdout = Owed
        /\ pc \in {"filter_stream", "filter_using_summary", "finished"}
            \/ (pc = "exit" /\ args.summary # None /\ stdin # <<>>
                /\ stdin[Len(stdin)].id \notin DOMAIN data)
====
